---- MODULE Spec2Model ----
(***************************************************************************)
(* State-reconciliation modules of jheddings/ansible-github.               *)
(*                                                                         *)
(* One run of a module (repository, label, file, branch, collaborator,     *)
(* secrets) is one action: the task runner builds the manager and the      *)
(* configuration, calls one manager method, and turns the outcome into a   *)
(* report.  The remote resource the module manages is the variable         *)
(* `remote`; `last` records the most recent run: its inputs, the remote    *)
(* state it started from, the remote calls it made, and its report.        *)
(*                                                                         *)
(* Python values are modelled as strings: None, Ellipsis, the PyGithub     *)
(* NotSet sentinel, True, False, text "s1", "s2", ... and bytes "b:s1",    *)
(* "b:s2", ... (str and bytes never compare equal, as in Python).          *)
(***************************************************************************)
EXTENDS Integers, Sequences, FiniteSets, TLC

VARIABLES module, remote, last

vars == <<module, remote, last>>

(* ------------------------------ bounds -------------------------------- *)

\* number of distinct text values used for descriptions, contents, values
NumText == 2

(* ------------------------------ values -------------------------------- *)

None == "None"
Ellipsis == "Ellipsis"
NotSet == "NotSet"
True == "True"
False == "False"

Bool == {True, False}
OptBool == {None, True, False}

Text == {"s" \o ToString(i) : i \in 1..NumText}

\* bytes.  str.encode("utf-8") and bytes(...) of the same characters
Encode(s) == "b:" \o s
Bytes == {Encode(t) : t \in Text}

\* the None returned by a manager's get() for a missing resource
NoneObj == [class |-> "NoneType"]

\* PyGithub classes derived from GithubObject
GithubObjectClasses == {"Repository", "Label", "ContentFile", "Branch"}

Call(op, args) == [op |-> op, args |-> args]

\* outcome of runner.apply: the remote state left behind, the remote calls
\* made in order, the exception raised ("" when none) and the changed flag
Ret(rem, calls, raised, changed) ==
    [remote |-> rem, calls |-> calls, raised |-> raised, changed |-> changed]

(* ------------------- ghutil.GithubObjectConfig ------------------------ *)

\* __iter__ that filters the Ellipsis sentinel only and yields None as a value
IterValue_keep_none(value) ==
    IF value = Ellipsis THEN NotSet ELSE value

\* __iter__: None and Ellipsis are yielded as NotSet
IterValue(value) ==
    IF value = None THEN NotSet
    ELSE IF value = Ellipsis THEN NotSet
    ELSE value

\* __iter__: the (name, value) pairs of the config, in field order
ConfigIter(fields, cfg) ==
    [i \in 1..Len(fields) |-> <<fields[i], IterValue(cfg[fields[i]])>>]

\* asdict: dict(self)
asdict(fields, cfg) ==
    [k \in {fields[i] : i \in 1..Len(fields)} |-> IterValue(cfg[k])]

\* the dict branch of __eq__ without the `key not in other` test: a
\* missing key reads as None
DictEq_missing_is_none(fields, cfg, other) ==
    \A i \in 1..Len(fields) :
        LET key == ConfigIter(fields, cfg)[i][1]
            val == ConfigIter(fields, cfg)[i][2]
        IN  \/ val = NotSet
            \/ (IF key \in DOMAIN other THEN other[key] ELSE None) = val

\* the dict branch of __eq__: a set field whose key is in `other` with a
\* different value is the only mismatch
DictEq(fields, cfg, other) ==
    \A i \in 1..Len(fields) :
        LET key == ConfigIter(fields, cfg)[i][1]
            val == ConfigIter(fields, cfg)[i][2]
        IN  \/ val = NotSet
            \/ key \notin DOMAIN other
            \/ other[key] = val

\* __eq__: dispatch on the type of `other`
ConfigEq(fields, cfg, other) ==
    IF other.class = "GithubObjectConfig"
    THEN DictEq(fields, cfg, asdict(other.fields, other.cfg))
    ELSE IF other.class \in GithubObjectClasses
    THEN DictEq(fields, cfg, other.raw_data)
    ELSE IF other.class = "dict"
    THEN DictEq(fields, cfg, other.data)
    ELSE TRUE

\* __ne__
ConfigNe(fields, cfg, other) == ~ConfigEq(fields, cfg, other)

\* a pop that removes nothing
Pop_keep(d, k) == d

\* dict with key k removed (dict.pop(k, None))
Pop(d, k) == [x \in (DOMAIN d) \ {k} |-> d[x]]

\* the remote applies the set values of a payload to the stored data
Overlay(raw, payload) ==
    [k \in DOMAIN raw |->
        IF k \in DOMAIN payload /\ payload[k] # NotSet THEN payload[k] ELSE raw[k]]

\* the manager constructors: ghconnect, then (all but repository) get_repo
ConnectCalls == <<Call("ghconnect", [url |-> "api_url"])>>
ManagerCalls == ConnectCalls \o <<Call("get_repo", [name |-> "repository"])>>

(* ---------------------------- repository ------------------------------ *)

RepoNames == {"repo"}

RepositoryFields ==
    << "name", "description", "private", "homepage", "auto_init",
       "has_issues", "has_wiki", "has_projects", "has_downloads",
       "allow_merge_commit", "allow_squash_merge", "allow_rebase_merge",
       "delete_branch_on_merge" >>

RepositoryFieldSet == {RepositoryFields[i] : i \in 1..Len(RepositoryFields)}

\* RepositoryConfig(**params): every option but name defaults to None.
\* The runs vary description, private and auto_init.
RepositoryConfig ==
    { [f \in RepositoryFieldSet |->
          CASE f = "name" -> n
            [] f = "description" -> d
            [] f = "private" -> p
            [] f = "auto_init" -> a
            [] OTHER -> None]
      : n \in RepoNames, d \in {None} \cup Text, p \in OptBool, a \in OptBool }

\* keys of Repository.raw_data: the options but auto_init, plus archived
RepositoryDataKeys == (RepositoryFieldSet \ {"auto_init"}) \cup {"archived"}

\* a repository as the remote holds it
RepositoryObj(n, d, p, ar) ==
    [class |-> "Repository",
     raw_data |-> [k \in RepositoryDataKeys |->
          CASE k = "name" -> n
            [] k = "description" -> d
            [] k = "private" -> p
            [] k = "archived" -> ar
            [] k = "homepage" -> None
            [] k = "delete_branch_on_merge" -> False
            [] OTHER -> True]]

RepositoryRemotes ==
    {NoneObj} \cup
    { RepositoryObj(n, d, p, ar) :
        n \in RepoNames, d \in {None} \cup Text, p \in Bool, ar \in Bool }

\* owner.create_repo(**new_data): the repository the remote creates and
\* returns.  What it creates is the remote's answer: it applies the
\* options asked for, and over them the settings of the owner account.
\* private_only: the account makes every new repository private, so a
\* repository asked for as public comes back private.
create_repo(new_data, private_only) ==
    LET fresh == RepositoryObj(new_data["name"], None, False, False)
        asked == Overlay(fresh.raw_data, new_data)
    IN  [fresh EXCEPT !.raw_data =
            IF private_only THEN [asked EXCEPT !["private"] = True] ELSE asked]

\* repo.edit(**new_data)
repo_edit(repo, new_data) ==
    [repo EXCEPT !.raw_data = Overlay(repo.raw_data, new_data)]

\* the answers the remote may give to the create_repo of a run of module
\* m from remote state rem; a run that issues no create_repo gets none
CreateRepoAnswers(m, state, check_mode, rem) ==
    IF /\ m = "repository" /\ state \in {"present", "replace"}
       /\ ~check_mode /\ rem = NoneObj
    THEN BOOLEAN ELSE {FALSE}

\* RepositoryManager.get: None when the repository does not exist
RepositoryManager_get(rem, name) ==
    IF rem.class = "Repository" /\ rem.raw_data["name"] = name
    THEN rem ELSE NoneObj

GetRepoCall(name) == Call("get_repo", [name |-> name])

RepositoryManager_absent(rem, name, check_mode) ==
    LET repo == RepositoryManager_get(rem, name)
        found == <<GetRepoCall(name)>>
    IN  IF repo = NoneObj THEN Ret(rem, found, "", FALSE)
        ELSE IF ~check_mode
        THEN Ret(NoneObj, found \o <<Call("delete", [name |-> name])>>, "", TRUE)
        ELSE Ret(rem, found, "", TRUE)

RepositoryManager_archived(rem, name, check_mode) ==
    LET repo == RepositoryManager_get(rem, name)
        found == <<GetRepoCall(name)>>
    IN  IF repo = NoneObj
        THEN Ret(rem, found, "UnknownObjectException", FALSE)
        ELSE IF ~(repo.raw_data["archived"] = True)
        THEN Ret(rem, found, "", FALSE)
        ELSE IF ~check_mode
        THEN Ret(repo_edit(repo, [archived |-> True]),
                 found \o <<Call("edit", [archived |-> True])>>, "", TRUE)
        ELSE Ret(rem, found, "", TRUE)

\* RepositoryManager.present creating without setting result["changed"]
RepositoryManager_present_unreported(rem, config, check_mode, private_only) ==
    LET repo == RepositoryManager_get(rem, config["name"])
        found == <<GetRepoCall(config["name"])>>
        new_data == asdict(RepositoryFields, config)
    IN  IF repo = NoneObj /\ ~check_mode
        THEN Ret(create_repo(new_data, private_only),
                 found \o <<Call("create_repo", new_data)>>, "", FALSE)
        ELSE IF repo = NoneObj THEN Ret(rem, found, "AttributeError", FALSE)
        ELSE Ret(rem, found, "", FALSE)

RepositoryManager_present(rem, config, check_mode, private_only) ==
    LET repo == RepositoryManager_get(rem, config["name"])
        found == <<GetRepoCall(config["name"])>>
        new_data == asdict(RepositoryFields, config)
    IN  IF repo = NoneObj
        THEN IF ~check_mode
             THEN Ret(create_repo(new_data, private_only),
                      found \o <<Call("create_repo", new_data)>>, "", TRUE)
             \* repo is still None: repo.raw_data raises
             ELSE Ret(rem, found, "AttributeError", TRUE)
        ELSE Ret(rem, found, "", FALSE)

\* RepositoryManager.replace: two ifs one after the other.  The second,
\* `config != repo`, is also made on the repository that the first has
\* just created, which is then edited when the remote has not created it
\* as the descriptor asks.
RepositoryManager_replace(rem, config, check_mode, private_only) ==
    LET repo == RepositoryManager_get(rem, config["name"])
        found == <<GetRepoCall(config["name"])>>
        new_data == asdict(RepositoryFields, config)
        missing == repo = NoneObj
        create == missing /\ ~check_mode
        repo1 == IF create THEN create_repo(new_data, private_only) ELSE repo
        calls1 == IF create THEN found \o <<Call("create_repo", new_data)>> ELSE found
        differs == ConfigNe(RepositoryFields, config, repo1)
        edit_data == Pop(new_data, "auto_init")
        edit == differs /\ ~check_mode
        repo2 == IF edit THEN repo_edit(repo1, edit_data) ELSE repo1
        calls2 == IF edit THEN calls1 \o <<Call("edit", edit_data)>> ELSE calls1
    IN  IF repo2 = NoneObj
        \* repo is still None: repo.raw_data raises
        THEN Ret(rem, calls2, "AttributeError", missing \/ differs)
        ELSE Ret(repo2, calls2, "", missing \/ differs)

RepositoryRunner_apply(state, params, check_mode, rem, private_only) ==
    LET r == CASE state = "absent" ->
                    RepositoryManager_absent(rem, params["name"], check_mode)
               [] state = "archived" ->
                    RepositoryManager_archived(rem, params["name"], check_mode)
               [] state = "replace" ->
                    RepositoryManager_replace(rem, params, check_mode, private_only)
               [] state = "present" ->
                    RepositoryManager_present(rem, params, check_mode, private_only)
    IN  [r EXCEPT !.calls = ConnectCalls \o r.calls]

(* ------------------------------- label -------------------------------- *)

LabelNames == {"bug"}

LabelFields == << "name", "color", "description" >>

\* sample colors: the default, another six-hex-digit color, and one that
\* is not hexadecimal
HexColors == {"cccccc", "ff0000"}
Colors == HexColors \cup {"zzzzzz"}

\* label_color_re.match(color) on the sample colors
label_color_re(color) == color \in HexColors

\* LabelConfig(**params); color may be given as null
LabelParams ==
    [name : LabelNames, color : Colors \cup {None}, description : {None} \cup Text]

\* LabelConfig.__post_init__: the exception raised, "" when valid
LabelConfig_post_init(params) ==
    IF params["color"] = None THEN "ValueError"
    ELSE IF ~label_color_re(params["color"]) THEN "ValueError"
    ELSE ""

LabelObj(n, c, d) ==
    [class |-> "Label", raw_data |-> [name |-> n, color |-> c, description |-> d]]

LabelRemotes ==
    {NoneObj} \cup
    { LabelObj(n, c, d) : n \in LabelNames, c \in HexColors, d \in {None} \cup Text }

\* repo.create_label(**new_data)
create_label(new_data) ==
    LET fresh == LabelObj(new_data["name"], new_data["color"], None)
    IN  [fresh EXCEPT !.raw_data = Overlay(fresh.raw_data, new_data)]

\* label.edit that sends the name only
label_edit_name_only(label, new_data) ==
    [label EXCEPT !.raw_data = Overlay(label.raw_data, [name |-> new_data["name"]])]

\* label.edit(**new_data)
label_edit(label, new_data) ==
    [label EXCEPT !.raw_data = Overlay(label.raw_data, new_data)]

LabelManager_get(rem, name) ==
    IF rem.class = "Label" /\ rem.raw_data["name"] = name
    THEN rem ELSE NoneObj

GetLabelCall(name) == Call("get_label", [name |-> name])

\* LabelManager.absent deleting without looking at check_mode
LabelManager_absent_unguarded(rem, name, check_mode) ==
    LET label == LabelManager_get(rem, name)
        found == <<GetLabelCall(name)>>
    IN  IF label = NoneObj THEN Ret(rem, found, "", FALSE)
        ELSE Ret(NoneObj, found \o <<Call("delete", [name |-> name])>>, "", TRUE)

LabelManager_absent(rem, name, check_mode) ==
    LET label == LabelManager_get(rem, name)
        found == <<GetLabelCall(name)>>
    IN  IF label = NoneObj THEN Ret(rem, found, "", FALSE)
        ELSE IF ~check_mode
        THEN Ret(NoneObj, found \o <<Call("delete", [name |-> name])>>, "", TRUE)
        ELSE Ret(rem, found, "", TRUE)

\* LabelManager.present passing the raw attribute values to create and edit
LabelManager_present_rawdata(rem, config, check_mode) ==
    LET label == LabelManager_get(rem, config["name"])
        found == <<GetLabelCall(config["name"])>>
    IN  IF label = NoneObj
        THEN IF ~check_mode
             THEN Ret(create_label(config),
                      found \o <<Call("create_label", config)>>, "", TRUE)
             ELSE Ret(rem, found, "AttributeError", TRUE)
        ELSE IF ConfigNe(LabelFields, config, label)
        THEN IF ~check_mode
             THEN Ret(label_edit(label, config),
                      found \o <<Call("edit", config)>>, "", TRUE)
             ELSE Ret(rem, found, "", TRUE)
        ELSE Ret(rem, found, "", FALSE)

LabelManager_present(rem, config, check_mode) ==
    LET label == LabelManager_get(rem, config["name"])
        found == <<GetLabelCall(config["name"])>>
        new_data == asdict(LabelFields, config)
    IN  IF label = NoneObj
        THEN IF ~check_mode
             THEN Ret(create_label(new_data),
                      found \o <<Call("create_label", new_data)>>, "", TRUE)
             \* label is still None: label.raw_data raises
             ELSE Ret(rem, found, "AttributeError", TRUE)
        ELSE IF ConfigNe(LabelFields, config, label)
        THEN IF ~check_mode
             THEN Ret(label_edit(label, new_data),
                      found \o <<Call("edit", new_data)>>, "", TRUE)
             ELSE Ret(rem, found, "", TRUE)
        ELSE Ret(rem, found, "", FALSE)

\* LabelRunner.apply: the manager is built before the config is validated
LabelRunner_apply(state, params, check_mode, rem) ==
    LET invalid == LabelConfig_post_init(params)
        r == CASE state = "absent" ->
                    LabelManager_absent(rem, params["name"], check_mode)
               [] state = "present" ->
                    LabelManager_present(rem, params, check_mode)
    IN  IF invalid # "" THEN Ret(rem, ManagerCalls, invalid, FALSE)
        ELSE [r EXCEPT !.calls = ManagerCalls \o r.calls]

(* -------------------------------- file -------------------------------- *)

FilePaths == {"README"}

FileFields == << "path", "message", "content", "source" >>

\* local files a `source` parameter can name: the file /s<i> holds the
\* bytes of text s<i>; /missing does not exist
SourceFile(t) == "/" \o t
LocalSources == {SourceFile(t) : t \in Text}
MissingSource == "/missing"
ReadSource(source) == Encode(CHOOSE t \in Text : SourceFile(t) = source)

\* the task parameters: inline content is text, source a local path
FileParams ==
    [path : FilePaths, message : {"msg"}, content : {None} \cup Text,
     source : {None, MissingSource} \cup LocalSources]

\* parameters that give the file something to hold (content or source)
FileParamsWithContent ==
    {p \in FileParams : p["content"] # None \/ p["source"] # None}

\* FileConfig.__post_init__: the exception raised by open(), "" when none
FileConfig_post_init_raises(params) ==
    IF params["source"] # None /\ params["source"] \notin LocalSources
    THEN "FileNotFoundError" ELSE ""

\* FileConfig.__post_init__: content is read from source, source becomes ...
FileConfig(params) ==
    IF params["source"] # None
    THEN [params EXCEPT !["content"] = ReadSource(params["source"]),
                        !["source"] = Ellipsis]
    ELSE params

\* the blob sha the remote computes for a content
Sha(content) == "sha:" \o content

\* a ContentFile: raw_data holds the path and sha; decoded_content the bytes
FileObj(p, c) ==
    [class |-> "ContentFile", path |-> p, decoded_content |-> c, sha |-> Sha(c),
     raw_data |-> [path |-> p, sha |-> Sha(c)]]

FileRemotes == {NoneObj} \cup { FileObj(p, c) : p \in FilePaths, c \in Bytes }

\* the bytes the client sends for a str or bytes content (str is encoded)
ContentBytes(content) == IF content \in Text THEN Encode(content) ELSE content

\* FileConfig.__eq__
FileConfigEq(config, other) ==
    IF other.class = "ContentFile"
    THEN /\ config["path"] = other.path
         /\ config["content"] = other.decoded_content
    ELSE ConfigEq(FileFields, config, other)

FileConfigNe(config, other) == ~FileConfigEq(config, other)

FileManager_get(rem, path) ==
    IF rem.class = "ContentFile" /\ rem.path = path THEN rem ELSE NoneObj

GetContentsCall(path) == Call("get_contents", [path |-> path])

\* FileManager.absent deleting by path alone
FileManager_absent_no_sha(rem, config, check_mode) ==
    LET file == FileManager_get(rem, config["path"])
        found == <<GetContentsCall(config["path"])>>
    IN  IF file = NoneObj THEN Ret(rem, found, "", FALSE)
        ELSE IF ~check_mode
        THEN Ret(NoneObj,
                 found \o <<Call("delete_file",
                     [path |-> file.path, message |-> config["message"]])>>,
                 "", TRUE)
        ELSE Ret(rem, found, "", TRUE)

FileManager_absent(rem, config, check_mode) ==
    LET file == FileManager_get(rem, config["path"])
        found == <<GetContentsCall(config["path"])>>
    IN  IF file = NoneObj THEN Ret(rem, found, "", FALSE)
        ELSE IF ~check_mode
        THEN Ret(NoneObj,
                 found \o <<Call("delete_file",
                     [path |-> file.path, message |-> config["message"],
                      sha |-> file.sha])>>, "", TRUE)
        ELSE Ret(rem, found, "", TRUE)

\* FileManager.present updating with the sha of the content it sends
FileManager_present_own_sha(rem, config, update, check_mode) ==
    LET file == FileManager_get(rem, config["path"])
        found == <<GetContentsCall(config["path"])>>
        written == FileObj(config["path"], ContentBytes(config["content"]))
    IN  IF file = NoneObj
        THEN IF ~check_mode
             THEN Ret(written,
                      found \o <<Call("create_file",
                          [path |-> config["path"], message |-> config["message"],
                           content |-> config["content"]])>>, "", TRUE)
             ELSE Ret(rem, found, "AttributeError", TRUE)
        ELSE IF update /\ FileConfigNe(config, file)
        THEN IF ~check_mode
             THEN Ret(written,
                      found \o <<Call("update_file",
                          [path |-> config["path"], message |-> config["message"],
                           content |-> config["content"], sha |-> written.sha])>>,
                      "", TRUE)
             ELSE Ret(rem, found, "", TRUE)
        ELSE Ret(rem, found, "", FALSE)

FileManager_present(rem, config, update, check_mode) ==
    LET file == FileManager_get(rem, config["path"])
        found == <<GetContentsCall(config["path"])>>
        written == FileObj(config["path"], ContentBytes(config["content"]))
    IN  IF file = NoneObj
        THEN IF ~check_mode
             THEN Ret(written,
                      found \o <<Call("create_file",
                          [path |-> config["path"], message |-> config["message"],
                           content |-> config["content"]])>>, "", TRUE)
             \* file is still None: file.raw_data raises
             ELSE Ret(rem, found, "AttributeError", TRUE)
        ELSE IF update /\ FileConfigNe(config, file)
        THEN IF ~check_mode
             THEN Ret(written,
                      found \o <<Call("update_file",
                          [path |-> config["path"], message |-> config["message"],
                           content |-> config["content"], sha |-> file.sha])>>,
                      "", TRUE)
             ELSE Ret(rem, found, "", TRUE)
        ELSE Ret(rem, found, "", FALSE)

FileManager_replace(rem, config, check_mode) ==
    FileManager_present(rem, config, TRUE, check_mode)

\* FileRunner.apply: the manager is built before the config
\* FileRunner.apply passing update=True for state present
FileRunner_apply_present_updates(state, params, check_mode, rem) ==
    LET unreadable == FileConfig_post_init_raises(params)
        cfg == FileConfig(params)
        r == CASE state = "absent" -> FileManager_absent(rem, cfg, check_mode)
               [] state = "present" -> FileManager_present(rem, cfg, TRUE, check_mode)
               [] state = "replace" -> FileManager_replace(rem, cfg, check_mode)
    IN  IF unreadable # "" THEN Ret(rem, ManagerCalls, unreadable, FALSE)
        ELSE [r EXCEPT !.calls = ManagerCalls \o r.calls]

FileRunner_apply(state, params, check_mode, rem) ==
    LET unreadable == FileConfig_post_init_raises(params)
        cfg == FileConfig(params)
        r == CASE state = "absent" -> FileManager_absent(rem, cfg, check_mode)
               [] state = "present" -> FileManager_present(rem, cfg, FALSE, check_mode)
               [] state = "replace" -> FileManager_replace(rem, cfg, check_mode)
    IN  IF unreadable # "" THEN Ret(rem, ManagerCalls, unreadable, FALSE)
        ELSE [r EXCEPT !.calls = ManagerCalls \o r.calls]

(* ------------------------------- branch ------------------------------- *)

BranchNames == {"main"}

BranchParams == [name : BranchNames, protected : OptBool]

BranchObj(n, p) ==
    [class |-> "Branch", raw_data |-> [name |-> n, protected |-> p]]

BranchRemotes == {NoneObj} \cup { BranchObj(n, p) : n \in BranchNames, p \in Bool }

ModuleWrapper_get(rem, name) ==
    IF rem.class = "Branch" /\ rem.raw_data["name"] = name THEN rem ELSE NoneObj

GetBranchCall(name) == Call("get_branch", [name |-> name])

ModuleWrapper_absent(rem, name, check_mode) ==
    LET branch == ModuleWrapper_get(rem, name)
        found == <<GetBranchCall(name)>>
    IN  IF branch = NoneObj THEN Ret(rem, found, "", FALSE)
        ELSE IF ~check_mode THEN Ret(rem, found, "NotImplementedError", FALSE)
        ELSE Ret(rem, found, "", TRUE)

ModuleWrapper_present(rem, config, check_mode) ==
    Ret(rem, <<>>, "NotImplementedError", FALSE)

ModuleWrapper_default(rem, config, check_mode) ==
    Ret(rem, <<>>, "NotImplementedError", FALSE)

\* branch.run
branch_run(state, params, check_mode, rem) ==
    LET r == CASE state = "absent" ->
                    ModuleWrapper_absent(rem, params["name"], check_mode)
               [] state = "present" -> ModuleWrapper_present(rem, params, check_mode)
               [] state = "default" -> ModuleWrapper_default(rem, params, check_mode)
    IN  [r EXCEPT !.calls = ManagerCalls \o r.calls]

(* ---------------------------- collaborator ---------------------------- *)

Usernames == {"octocat"}

\* the choices of the permission parameter
Permissions == {"pull", "triage", "push", "maintain", "admin"}

CollaboratorParams == [username : Usernames, permission : Permissions]

\* a collaborator of the repository, with the permission it holds
CollaboratorObj(u, p) == [class |-> "Collaborator", username |-> u, permission |-> p]

CollaboratorRemotes ==
    {NoneObj} \cup { CollaboratorObj(u, p) : u \in Usernames, p \in Permissions }

\* repo.has_in_collaborators(name)
has_in_collaborators(rem, name) ==
    rem.class = "Collaborator" /\ rem.username = name

HasCollaboratorCall(name) == Call("has_in_collaborators", [username |-> name])

CollaboratorManager_absent(rem, name, check_mode) ==
    LET found == <<HasCollaboratorCall(name)>>
    IN  IF ~has_in_collaborators(rem, name) THEN Ret(rem, found, "", FALSE)
        ELSE IF ~check_mode
        THEN Ret(NoneObj,
                 found \o <<Call("remove_from_collaborators", [username |-> name])>>,
                 "", TRUE)
        ELSE Ret(rem, found, "", TRUE)

CollaboratorManager_present(rem, config, check_mode) ==
    LET name == config["username"]
        has == has_in_collaborators(rem, name)
        perm == IF has THEN rem.permission ELSE None
        looked == IF has
                  THEN <<HasCollaboratorCall(name),
                         Call("get_collaborator_permission", [username |-> name])>>
                  ELSE <<HasCollaboratorCall(name)>>
    IN  IF perm # config["permission"]
        THEN IF ~check_mode
             THEN Ret(CollaboratorObj(name, config["permission"]),
                      looked \o <<Call("add_to_collaborators",
                          [username |-> name, permission |-> config["permission"]])>>,
                      "", TRUE)
             ELSE Ret(rem, looked, "", TRUE)
        ELSE Ret(rem, looked, "", FALSE)

CollaboratorRunner_apply(state, params, check_mode, rem) ==
    LET r == CASE state = "absent" ->
                    CollaboratorManager_absent(rem, params["username"], check_mode)
               [] state = "present" ->
                    CollaboratorManager_present(rem, params, check_mode)
    IN  [r EXCEPT !.calls = ManagerCalls \o r.calls]

(* ------------------------------ secrets ------------------------------- *)

SecretNames == {"TOKEN"}

SecretsParams == [name : SecretNames, value : {None} \cup Text]

\* a secret as the remote holds it (the value is write-only)
SecretObj(n, v) == [class |-> "Secret", name |-> n, value |-> v]

SecretsRemotes == {NoneObj} \cup { SecretObj(n, v) : n \in SecretNames, v \in Text }

\* SecretsManager.absent.  repo.delete_secret is called without a lookup;
\* for a secret that does not exist the call either returns False or
\* raises (missing_raises)
SecretsManager_absent(rem, name, missing_raises) ==
    LET calls == <<Call("delete_secret", [secret_name |-> name])>>
        exists == rem.class = "Secret" /\ rem.name = name
    IN  IF exists THEN Ret(NoneObj, calls, "", TRUE)
        ELSE IF missing_raises THEN Ret(rem, calls, "UnknownObjectException", FALSE)
        ELSE Ret(rem, calls, "", FALSE)

\* SecretsManager.present: repo.create_secret is called without a lookup;
\* created is the truth value of what the call returns
SecretsManager_present(rem, name, value, created) ==
    Ret(SecretObj(name, value),
        <<Call("create_secret", [secret_name |-> name, unencrypted_value |-> value])>>,
        "", created)

\* what repo.create_secret may return: a true value for a secret that did
\* not exist; for one that existed the answer is the client library's
CreateSecretReturns(rem, name) ==
    IF rem.class = "Secret" /\ rem.name = name THEN BOOLEAN ELSE {TRUE}

\* SecretsRunner.apply that builds the manager before it looks at check_mode
SecretsRunner_apply_manager_first(state, params, check_mode, rem, missing_raises, created) ==
    LET r == CASE state = "absent" ->
                    SecretsManager_absent(rem, params["name"], missing_raises)
               [] state = "present" ->
                    SecretsManager_present(rem, params["name"], params["value"],
                                           created)
    IN  IF check_mode THEN Ret(rem, ManagerCalls, "ValueError", FALSE)
        ELSE [r EXCEPT !.calls = ManagerCalls \o r.calls]

SecretsRunner_apply(state, params, check_mode, rem, missing_raises, created) ==
    LET r == CASE state = "absent" ->
                    SecretsManager_absent(rem, params["name"], missing_raises)
               [] state = "present" ->
                    SecretsManager_present(rem, params["name"], params["value"],
                                           created)
    IN  IF check_mode THEN Ret(rem, <<>>, "ValueError", FALSE)
        ELSE [r EXCEPT !.calls = ManagerCalls \o r.calls]

(* ------------------------------ runner -------------------------------- *)

\* exceptions derived from GithubException
GithubExceptions == {"GithubException", "UnknownObjectException"}

\* a runner without the except clause: a GithubException is not caught
TaskRunner_call_uncaught(r) ==
    IF r.raised = "" THEN [kind |-> "ok", changed |-> r.changed, error |-> ""]
    ELSE [kind |-> "crash", changed |-> FALSE, error |-> r.raised]

\* TaskRunner.__call__: exit_json(**result), or fail_json for a
\* GithubException; any other exception leaves the runner uncaught
TaskRunner_call(r) ==
    IF r.raised = "" THEN [kind |-> "ok", changed |-> r.changed, error |-> ""]
    ELSE IF r.raised \in GithubExceptions
    THEN [kind |-> "failed", changed |-> FALSE, error |-> r.raised]
    ELSE [kind |-> "crash", changed |-> FALSE, error |-> r.raised]

NoRun == [state |-> "none"]

Run(state, params, check_mode, r) ==
    /\ remote' = r.remote
    /\ last' = [state |-> state, params |-> params, check_mode |-> check_mode,
                before |-> remote, calls |-> r.calls, out |-> TaskRunner_call(r),
                fault |-> 0]
    /\ UNCHANGED module

\* a run of repository present or replace, which may create: the run
\* also records the answer the remote gives to a create
RunCreating(state, params, check_mode, private_only, r) ==
    /\ remote' = r.remote
    /\ last' = [state |-> state, params |-> params, check_mode |-> check_mode,
                before |-> remote, calls |-> r.calls, out |-> TaskRunner_call(r),
                fault |-> 0, private_only |-> private_only]
    /\ UNCHANGED module

(* ------------------------------ actions ------------------------------- *)

RepositoryAbsent ==
    /\ module = "repository"
    /\ \E params \in RepositoryConfig, check_mode \in BOOLEAN :
          Run("absent", params, check_mode,
              RepositoryRunner_apply("absent", params, check_mode, remote, FALSE))

RepositoryArchived ==
    /\ module = "repository"
    /\ \E params \in RepositoryConfig, check_mode \in BOOLEAN :
          Run("archived", params, check_mode,
              RepositoryRunner_apply("archived", params, check_mode, remote, FALSE))

RepositoryPresent ==
    /\ module = "repository"
    /\ \E params \in RepositoryConfig, check_mode \in BOOLEAN :
        \E private_only \in CreateRepoAnswers(module, "present", check_mode, remote) :
          RunCreating("present", params, check_mode, private_only,
              RepositoryRunner_apply("present", params, check_mode, remote, private_only))

RepositoryReplace ==
    /\ module = "repository"
    /\ \E params \in RepositoryConfig, check_mode \in BOOLEAN :
        \E private_only \in CreateRepoAnswers(module, "replace", check_mode, remote) :
          RunCreating("replace", params, check_mode, private_only,
              RepositoryRunner_apply("replace", params, check_mode, remote, private_only))

LabelAbsent ==
    /\ module = "label"
    /\ \E params \in LabelParams, check_mode \in BOOLEAN :
          Run("absent", params, check_mode,
              LabelRunner_apply("absent", params, check_mode, remote))

LabelPresent ==
    /\ module = "label"
    /\ \E params \in LabelParams, check_mode \in BOOLEAN :
          Run("present", params, check_mode,
              LabelRunner_apply("present", params, check_mode, remote))

FileAbsent ==
    /\ module = "file"
    /\ \E params \in FileParams, check_mode \in BOOLEAN :
          Run("absent", params, check_mode,
              FileRunner_apply("absent", params, check_mode, remote))

FilePresent ==
    /\ module = "file"
    /\ \E params \in FileParamsWithContent, check_mode \in BOOLEAN :
          Run("present", params, check_mode,
              FileRunner_apply("present", params, check_mode, remote))

FileReplace ==
    /\ module = "file"
    /\ \E params \in FileParamsWithContent, check_mode \in BOOLEAN :
          Run("replace", params, check_mode,
              FileRunner_apply("replace", params, check_mode, remote))

BranchAbsent ==
    /\ module = "branch"
    /\ \E params \in BranchParams, check_mode \in BOOLEAN :
          Run("absent", params, check_mode,
              branch_run("absent", params, check_mode, remote))

BranchPresent ==
    /\ module = "branch"
    /\ \E params \in BranchParams, check_mode \in BOOLEAN :
          Run("present", params, check_mode,
              branch_run("present", params, check_mode, remote))

BranchDefault ==
    /\ module = "branch"
    /\ \E params \in BranchParams, check_mode \in BOOLEAN :
          Run("default", params, check_mode,
              branch_run("default", params, check_mode, remote))

CollaboratorAbsent ==
    /\ module = "collaborator"
    /\ \E params \in CollaboratorParams, check_mode \in BOOLEAN :
          Run("absent", params, check_mode,
              CollaboratorRunner_apply("absent", params, check_mode, remote))

CollaboratorPresent ==
    /\ module = "collaborator"
    /\ \E params \in CollaboratorParams, check_mode \in BOOLEAN :
          Run("present", params, check_mode,
              CollaboratorRunner_apply("present", params, check_mode, remote))

SecretsAbsent ==
    /\ module = "secrets"
    /\ \E params \in SecretsParams, check_mode \in BOOLEAN, missing_raises \in BOOLEAN :
          Run("absent", params, check_mode,
              SecretsRunner_apply("absent", params, check_mode, remote,
                                  missing_raises, TRUE))

SecretsPresent ==
    /\ module = "secrets"
    /\ \E params \in SecretsParams, check_mode \in BOOLEAN :
        \E created \in CreateSecretReturns(remote, params["name"]) :
          LET r == SecretsRunner_apply("present", params, check_mode, remote,
                                       FALSE, created)
          IN  /\ remote' = r.remote
              /\ last' = [state |-> "present", params |-> params,
                          check_mode |-> check_mode, before |-> remote,
                          calls |-> r.calls, out |-> TaskRunner_call(r),
                          fault |-> 0, created |-> created]
              /\ UNCHANGED module

Modules == {"repository", "label", "file", "branch", "collaborator", "secrets"}

\* the remote states the resource of a module can be in
Remotes(m) ==
    CASE m = "repository" -> RepositoryRemotes
      [] m = "label" -> LabelRemotes
      [] m = "file" -> FileRemotes
      [] m = "branch" -> BranchRemotes
      [] m = "collaborator" -> CollaboratorRemotes
      [] m = "secrets" -> SecretsRemotes

Init ==
    /\ module \in Modules
    /\ remote \in Remotes(module)
    /\ last = NoRun

Next ==
    \/ RepositoryAbsent
    \/ RepositoryArchived
    \/ RepositoryPresent
    \/ RepositoryReplace
    \/ LabelAbsent
    \/ LabelPresent
    \/ FileAbsent
    \/ FilePresent
    \/ FileReplace
    \/ BranchAbsent
    \/ BranchPresent
    \/ BranchDefault
    \/ CollaboratorAbsent
    \/ CollaboratorPresent
    \/ SecretsAbsent
    \/ SecretsPresent

Spec == Init /\ [][Next]_vars

(* ------------------------- reading a run ------------------------------ *)

\* a run has been made
Ran == last.state # "none"

\* remote calls that change the remote state
MutatingOps ==
    {"create_repo", "create_label", "create_file", "edit", "update_file",
     "delete", "delete_file", "add_to_collaborators",
     "remove_from_collaborators", "create_secret", "delete_secret"}
CreateOps == {"create_repo", "create_label", "create_file"}
EditOps == {"edit", "update_file"}
DeleteOps == {"delete", "delete_file", "remove_from_collaborators", "delete_secret"}

IsMutation(c) == c.op \in MutatingOps
Mutations(calls) == SelectSeq(calls, IsMutation)

\* the descriptor of the last run was built without a validation error
Valid ==
    CASE module = "label" -> LabelConfig_post_init(last.params) = ""
      [] module = "file" -> FileConfig_post_init_raises(last.params) = ""
      [] OTHER -> TRUE

\* the descriptor of the last run, as the manager receives it
Descriptor == IF module = "file" THEN FileConfig(last.params) ELSE last.params

\* the fields of the descriptor of a module
DescriptorFields(m) ==
    CASE m = "repository" -> RepositoryFieldSet
      [] m = "label" -> {"name", "color", "description"}
      [] m = "file" -> {"path", "message", "content", "source"}

\* the report the same run gives from remote state rem under check_mode
Report(m, state, params, check_mode, rem, missing_raises, created, private_only) ==
    TaskRunner_call(
        CASE m = "repository" ->
                RepositoryRunner_apply(state, params, check_mode, rem, private_only)
          [] m = "label" -> LabelRunner_apply(state, params, check_mode, rem)
          [] m = "file" -> FileRunner_apply(state, params, check_mode, rem)
          [] m = "branch" -> branch_run(state, params, check_mode, rem)
          [] m = "collaborator" ->
                CollaboratorRunner_apply(state, params, check_mode, rem)
          [] m = "secrets" ->
                SecretsRunner_apply(state, params, check_mode, rem, missing_raises,
                                    created))

(* ------------------------ remote API errors --------------------------- *)

\* the states each module offers
States(m) ==
    CASE m = "repository" -> {"present", "replace", "absent", "archived"}
      [] m = "label" -> {"present", "absent"}
      [] m = "file" -> {"present", "replace", "absent"}
      [] m = "branch" -> {"present", "default", "absent"}
      [] m = "collaborator" -> {"present", "absent"}
      [] m = "secrets" -> {"present", "absent"}

\* the parameters a run of module m with the given state is made with
Params(m, state) ==
    CASE m = "repository" -> RepositoryConfig
      [] m = "label" -> LabelParams
      [] m = "file" -> (IF state = "absent" THEN FileParams ELSE FileParamsWithContent)
      [] m = "branch" -> BranchParams
      [] m = "collaborator" -> CollaboratorParams
      [] m = "secrets" -> SecretsParams

\* apply of the runner of module m
RunnerApply(m, state, params, check_mode, rem, missing_raises, created, private_only) ==
    CASE m = "repository" ->
                RepositoryRunner_apply(state, params, check_mode, rem, private_only)
      [] m = "label" -> LabelRunner_apply(state, params, check_mode, rem)
      [] m = "file" -> FileRunner_apply(state, params, check_mode, rem)
      [] m = "branch" -> branch_run(state, params, check_mode, rem)
      [] m = "collaborator" -> CollaboratorRunner_apply(state, params, check_mode, rem)
      [] m = "secrets" ->
            SecretsRunner_apply(state, params, check_mode, rem, missing_raises,
                                created)

\* the remote calls by which module m looks its target resource up
LookupOps(m) ==
    CASE m = "repository" -> {"get_repo"}
      [] m = "label" -> {"get_label"}
      [] m = "file" -> {"get_contents"}
      [] m = "branch" -> {"get_branch"}
      [] m = "collaborator" -> {"has_in_collaborators", "get_collaborator_permission"}
      [] m = "secrets" -> {}

\* the remote's answer to mutating call c of module m while it holds cur.
\* With sha_guard the remote accepts update_file and delete_file only
\* when the sha passed is the sha of the file it holds; private_only is
\* its answer to create_repo.
ApplyCall(m, c, cur, sha_guard, private_only) ==
    LET rejected == Ret(cur, <<c>>, "GithubException", FALSE)
        gone == Ret(cur, <<c>>, "UnknownObjectException", FALSE)
        stale == /\ sha_guard /\ cur # NoneObj
                 /\ ("sha" \notin DOMAIN c.args \/ cur.sha # c.args["sha"])
    IN  CASE c.op = "create_repo" ->
                IF cur = NoneObj
                THEN Ret(create_repo(c.args, private_only), <<c>>, "", TRUE)
                ELSE rejected
          [] c.op = "create_label" ->
                IF cur = NoneObj THEN Ret(create_label(c.args), <<c>>, "", TRUE)
                ELSE rejected
          [] c.op = "create_file" ->
                IF cur = NoneObj
                THEN Ret(FileObj(c.args["path"], ContentBytes(c.args["content"])),
                         <<c>>, "", TRUE)
                ELSE rejected
          [] c.op = "edit" ->
                IF cur = NoneObj THEN gone
                ELSE Ret(IF m = "repository" THEN repo_edit(cur, c.args)
                         ELSE label_edit(cur, c.args), <<c>>, "", TRUE)
          [] c.op = "delete" ->
                IF cur = NoneObj THEN gone ELSE Ret(NoneObj, <<c>>, "", TRUE)
          [] c.op = "update_file" ->
                IF cur = NoneObj THEN gone
                ELSE IF stale THEN rejected
                ELSE Ret(FileObj(c.args["path"], ContentBytes(c.args["content"])),
                         <<c>>, "", TRUE)
          [] c.op = "delete_file" ->
                IF cur = NoneObj THEN gone
                ELSE IF stale THEN rejected
                ELSE Ret(NoneObj, <<c>>, "", TRUE)
          [] c.op = "add_to_collaborators" ->
                Ret(CollaboratorObj(c.args["username"], c.args["permission"]),
                    <<c>>, "", TRUE)
          [] c.op = "remove_from_collaborators" ->
                Ret(NoneObj, <<c>>, "", TRUE)

\* the remote's answers to the mutating calls muts of one run, the first
\* of which it has answered with a (a run makes two at most: repository
\* replace, create then edit); a call that is refused ends the run
Chain(m, muts, a, sha_guard, private_only) ==
    LET b == ApplyCall(m, muts[2], a.remote, sha_guard, private_only)
    IN  IF a.raised # "" \/ Len(muts) = 1 THEN a
        ELSE Ret(b.remote, a.calls \o b.calls, b.raised, b.raised = "")

\* the remote's answers to the mutating calls of one run, made one after
\* the other from remote state cur.  calls holds the calls that were made.
ApplyCalls(m, muts, cur, sha_guard, private_only) ==
    IF muts = <<>> THEN Ret(cur, <<>>, "", FALSE)
    ELSE Chain(m, muts, ApplyCall(m, muts[1], cur, sha_guard, private_only),
               sha_guard, private_only)

\* the calls of a run up to and including its n-th mutating call
UpTo(calls, n) ==
    LET at == {i \in 1..Len(calls) :
                  IsMutation(calls[i]) /\ Len(Mutations(SubSeq(calls, 1, i))) = n}
    IN  IF at = {} THEN calls ELSE SubSeq(calls, 1, CHOOSE i \in at : TRUE)

\* the run r that a manager has decided on, when the remote answers its
\* mutating calls with a: a call that is refused ends the run
Answered(r, a) ==
    IF a.calls = <<>> THEN [r EXCEPT !.remote = a.remote]
    ELSE Ret(a.remote,
             IF a.raised = "" THEN r.calls ELSE UpTo(r.calls, Len(a.calls)),
             a.raised,
             IF a.raised = "" THEN r.changed ELSE FALSE)

\* the classes of error a remote call can fail with
ApiErrors == {"GithubException", "UnknownObjectException"}

\* call c of a run of module m is the lookup inside the manager's get(),
\* whose `except UnknownObjectException` reads a 404 as "no such
\* resource".  RepositoryManager.archived calls get_repo itself, and the
\* collaborator lookups and the get_repo of the constructors are not
\* guarded.
CaughtByGet(m, state, c) ==
    /\ m \in {"repository", "label", "file", "branch"}
    /\ c.op \in LookupOps(m)
    /\ ~(m = "repository" /\ state = "archived")

\* the run of module m from remote state rem when its k-th remote call
\* fails with an error of class err.  A 404 of the lookup in get() is
\* caught: the manager goes on as for a missing resource, and its
\* mutating calls, if any, meet the remote as it is.  Any other error
\* ends apply: the call has no effect, and the calls before it have been
\* made (a mutation among them has taken effect).
ApiError(m, state, params, check_mode, rem, missing_raises, created, private_only, k, err) ==
    LET r == RunnerApply(m, state, params, check_mode, rem, missing_raises, created,
                         private_only)
        missing == RunnerApply(m, state, params, check_mode, NoneObj,
                               missing_raises, created, private_only)
        made == ApplyCalls(m, Mutations(SubSeq(r.calls, 1, k - 1)), rem, FALSE,
                           private_only)
    IN  IF err = "UnknownObjectException" /\ CaughtByGet(m, state, r.calls[k])
        THEN Answered(missing, ApplyCalls(m, Mutations(missing.calls), rem, FALSE,
                                          private_only))
        ELSE Ret(made.remote, SubSeq(r.calls, 1, k), err, FALSE)

\* a run of the module in which one remote call fails with an API error
ApiFailure ==
    \E state \in States(module), check_mode \in BOOLEAN,
       missing_raises \in BOOLEAN, created \in BOOLEAN, err \in ApiErrors :
      \E params \in Params(module, state),
         private_only \in CreateRepoAnswers(module, state, check_mode, remote) :
        LET r == RunnerApply(module, state, params, check_mode, remote,
                             missing_raises, created, private_only)
        IN  \E k \in 1..Len(r.calls) :
              LET e == ApiError(module, state, params, check_mode, remote,
                                missing_raises, created, private_only, k, err)
              IN  /\ remote' = e.remote
                  /\ last' = [state |-> state, params |-> params,
                              check_mode |-> check_mode, before |-> remote,
                              calls |-> e.calls, out |-> TaskRunner_call(e),
                              fault |-> k, raised |-> err,
                              private_only |-> private_only]
                  /\ UNCHANGED module

\* one invocation of a module, from any remote state, with or without
\* an API error
FirstRun == last = NoRun

NextFault ==
    \/ FirstRun /\ RepositoryAbsent
    \/ FirstRun /\ RepositoryArchived
    \/ FirstRun /\ RepositoryPresent
    \/ FirstRun /\ RepositoryReplace
    \/ FirstRun /\ LabelAbsent
    \/ FirstRun /\ LabelPresent
    \/ FirstRun /\ FileAbsent
    \/ FirstRun /\ FilePresent
    \/ FirstRun /\ FileReplace
    \/ FirstRun /\ BranchAbsent
    \/ FirstRun /\ BranchPresent
    \/ FirstRun /\ BranchDefault
    \/ FirstRun /\ CollaboratorAbsent
    \/ FirstRun /\ CollaboratorPresent
    \/ FirstRun /\ SecretsAbsent
    \/ FirstRun /\ SecretsPresent
    \/ FirstRun /\ ApiFailure

SpecFault == Init /\ [][NextFault]_vars

(* ------------------------------ claims -------------------------------- *)

\* C1: dry-run purity.  A run with check_mode = true, of any module and
\* any state, issues no mutating remote call and leaves the remote state
\* as it was before the run.
C1_DryRunPurity ==
    (Ran /\ last.check_mode) =>
        /\ Mutations(last.calls) = <<>>
        /\ remote = last.before

\* a dry run of repository replace against a repository that differs
C1_Witness ==
    /\ Ran /\ module = "repository" /\ last.state = "replace"
    /\ last.check_mode /\ last.before # NoneObj
    /\ last.out.kind = "ok" /\ last.out.changed

\* C2: dry-run is a faithful preview.  A run with check_mode = true ends
\* the way the run with check_mode = false from the same remote state
\* ends, and with the same changed flag.
C2_DryRunFaithful ==
    (Ran /\ last.check_mode) =>
        \E missing_raises, created, private_only \in BOOLEAN :
            LET real == Report(module, last.state, last.params, FALSE,
                               last.before, missing_raises, created, private_only)
            IN  /\ last.out.kind = real.kind
                /\ last.out.changed = real.changed

\* C3: present (and replace) against a missing repository, label or file
\* with check_mode = true reports changed = true and issues no create.
C3_DryRunCreateReported ==
    ( /\ Ran /\ module \in {"repository", "label", "file"}
      /\ last.state \in {"present", "replace"}
      /\ last.check_mode /\ last.before = NoneObj /\ Valid ) =>
        /\ last.out.kind = "ok"
        /\ last.out.changed
        /\ Mutations(last.calls) = <<>>

\* C4: present against a missing repository, label or file with
\* check_mode = false issues exactly one mutating call, a create whose
\* payload carries every set field of the descriptor, reports
\* changed = true, and leaves a resource of the descriptor's identity
\* that holds the set fields: the resource the create call returned.  (A
\* repository holds them but for what the owner account sets itself.)
C4_PresentCreates ==
    ( /\ Ran /\ module \in {"repository", "label", "file"}
      /\ last.state = "present"
      /\ ~last.check_mode /\ last.before = NoneObj /\ Valid ) =>
        LET m == Mutations(last.calls)
            payload == m[1].args
            set == {f \in DescriptorFields(module) : IterValue(Descriptor[f]) # NotSet}
        IN  /\ last.out.kind = "ok"
            /\ last.out.changed
            /\ Len(m) = 1
            /\ m[1].op \in CreateOps
            /\ \A f \in set : f \in DOMAIN payload /\ payload[f] = Descriptor[f]
            /\ remote # NoneObj
            /\ CASE module = "repository" ->
                       /\ RepositoryManager_get(remote, Descriptor["name"]) = remote
                       /\ remote = create_repo(payload, last.private_only)
                       /\ \A f \in set \cap DOMAIN remote.raw_data :
                              (f = "private" /\ last.private_only)
                                  \/ remote.raw_data[f] = Descriptor[f]
                 [] module = "label" ->
                       /\ LabelManager_get(remote, Descriptor["name"]) = remote
                       /\ \A f \in set : remote.raw_data[f] = Descriptor[f]
                 [] module = "file" ->
                       /\ FileManager_get(remote, Descriptor["path"]) = remote
                       /\ remote.decoded_content = ContentBytes(Descriptor["content"])

\* a label created with a description by a real run
C4_Witness ==
    /\ Ran /\ module = "label" /\ last.state = "present"
    /\ ~last.check_mode /\ last.before = NoneObj
    /\ last.params["description"] \in Text
    /\ remote # NoneObj /\ last.out.changed

\* the descriptor of the last run differs from resource r in what it sets:
\* some set option has another value in r, or (file) other bytes
Differs(r) ==
    CASE module = "repository" ->
            \E f \in RepositoryFieldSet \cap DOMAIN r.raw_data :
                /\ IterValue(Descriptor[f]) # NotSet
                /\ r.raw_data[f] # Descriptor[f]
      [] module = "file" ->
            ContentBytes(Descriptor["content"]) # r.decoded_content

\* C5: idempotence of replace.  For repository and file, a replace with
\* check_mode = false from a remote state where the resource is missing or
\* differs from the descriptor reports changed = true, and the same
\* replace run again right after it reports changed = false and issues no
\* mutating call.
C5_ReplaceIdempotent ==
    [][ ( /\ Ran /\ module \in {"repository", "file"}
          /\ last.state = "replace" /\ ~last.check_mode /\ Valid
          /\ (last.before = NoneObj \/ Differs(last.before))
          /\ last'.state = "replace" /\ ~last'.check_mode
          /\ last'.params = last.params ) =>
            /\ last.out.kind = "ok" /\ last.out.changed
            /\ last'.out.kind = "ok" /\ ~last'.out.changed
            /\ Mutations(last'.calls) = <<>> ]_vars

\* the comparison a manager makes between a descriptor and a resource
Matches(m, cfg, r) ==
    CASE m = "repository" -> ConfigEq(RepositoryFields, cfg, r)
      [] m = "label" -> ConfigEq(LabelFields, cfg, r)
      [] m = "file" -> FileConfigEq(cfg, r)

\* C6: replace selects one action from the observed remote state, for
\* repository and file.  Resource missing: one create and no edit (no call
\* at all under check_mode).  Resource found and the descriptor does not
\* match it (some set field has another value, other bytes): exactly one
\* edit, none under check_mode, and changed = true.  Resource found and
\* the descriptor matches: no mutating call and changed = false.
C6_ReplaceSelects ==
    ( /\ Ran /\ module \in {"repository", "file"}
      /\ last.state = "replace" /\ Valid ) =>
        LET m == Mutations(last.calls)
        IN  IF last.before = NoneObj
            THEN IF last.check_mode THEN m = <<>>
                 ELSE /\ Len(m) = 1 /\ m[1].op \in CreateOps
                      /\ last.out.kind = "ok" /\ last.out.changed
            ELSE IF Differs(last.before)
            THEN /\ last.out.kind = "ok" /\ last.out.changed
                 /\ IF last.check_mode THEN m = <<>>
                    ELSE Len(m) = 1 /\ m[1].op \in EditOps
            ELSE /\ m = <<>>
                 /\ last.out.kind = "ok" /\ ~last.out.changed

\* C7: absent of absent.  For every module, absent against a resource
\* that does not exist reports changed = false and issues no delete call,
\* with or without check_mode.
C7_AbsentOfAbsent ==
    (Ran /\ last.state = "absent" /\ last.before = NoneObj /\ Valid) =>
        /\ last.out.kind = "ok" /\ ~last.out.changed
        /\ \A i \in 1..Len(last.calls) : last.calls[i].op \notin DeleteOps

\* C8: absent of present.  For repository, label, file, branch and
\* collaborator, absent with check_mode = false against a resource that
\* exists issues exactly one delete call, reports changed = true and
\* leaves the resource missing; absent against the missing resource then
\* reports changed = false.
C8_AbsentDeletes ==
    ( /\ Ran /\ last.state = "absent" /\ ~last.check_mode /\ Valid
      /\ module \in {"repository", "label", "file", "branch", "collaborator"} ) =>
        LET m == Mutations(last.calls)
        IN  IF last.before # NoneObj
            THEN /\ last.out.kind = "ok" /\ last.out.changed
                 /\ Len(m) = 1 /\ m[1].op \in DeleteOps
                 /\ remote = NoneObj
            ELSE last.out.kind = "ok" /\ ~last.out.changed

\* the field of a remote resource that descriptor field f is compared with
RemoteField(r, f) ==
    IF r.class = "ContentFile"
    THEN (IF f = "content" THEN r.decoded_content
          ELSE IF f = "path" THEN r.path ELSE None)
    ELSE (IF f \in DOMAIN r.raw_data THEN r.raw_data[f] ELSE None)

\* remote resources r1 and r2 are equal but for the value of field f
DifferOnlyIn(m, r1, r2, f) ==
    \A g \in DescriptorFields(m) \ {f} : RemoteField(r1, g) = RemoteField(r2, g)

\* C9: unset-field neutrality.  For the descriptor of any run and any
\* field of it left None or Ellipsis, two remote resources that differ
\* only in that field compare the same with the descriptor.
C9_UnsetNeutral ==
    (Ran /\ module \in {"repository", "label", "file"} /\ Valid) =>
        \A f \in DescriptorFields(module) :
            Descriptor[f] \in {None, Ellipsis} =>
                \A r1, r2 \in Remotes(module) \ {NoneObj} :
                    DifferOnlyIn(module, r1, r2, f) =>
                        Matches(module, Descriptor, r1) = Matches(module, Descriptor, r2)

\* a replace whose descriptor leaves description unset finds a repository
\* with a description and matches it
C9_Witness ==
    /\ Ran /\ module = "repository" /\ last.state = "replace"
    /\ last.params["description"] = None
    /\ last.before # NoneObj
    /\ last.before.raw_data["description"] \in Text
    /\ last.out.kind = "ok" /\ ~last.out.changed

\* C10: a field given as null takes part in the comparison and in the
\* payload: replace against a repository (present against a label) that
\* holds a value for a field the descriptor gives as null edits the
\* resource and clears the field.
C10_NullClears ==
    ( /\ Ran /\ module \in {"repository", "label"}
      /\ last.state = (IF module = "label" THEN "present" ELSE "replace")
      /\ ~last.check_mode /\ Valid /\ last.before # NoneObj
      /\ last.params["description"] = None
      /\ last.before.raw_data["description"] # None ) =>
        /\ last.out.kind = "ok" /\ last.out.changed
        /\ remote.raw_data["description"] = None


\* C11: the payload of every create and edit call of repository and label
\* carries a value only for fields the descriptor sets, and that value is
\* the descriptor's; every other key holds NotSet.  A resource that
\* exists keeps its value for each field the descriptor leaves unset.
C11_PayloadSetFieldsOnly ==
    ( /\ Ran /\ module \in {"repository", "label"}
      /\ last.state \in {"present", "replace"} /\ Valid ) =>
        /\ \A i \in 1..Len(last.calls) :
              last.calls[i].op \in CreateOps \cup EditOps =>
                 \A k \in DOMAIN last.calls[i].args :
                     last.calls[i].args[k] # NotSet =>
                         /\ Descriptor[k] \notin {None, Ellipsis}
                         /\ last.calls[i].args[k] = Descriptor[k]
        /\ last.before # NoneObj =>
              \A f \in DescriptorFields(module) \cap DOMAIN last.before.raw_data :
                  Descriptor[f] \in {None, Ellipsis} =>
                      remote.raw_data[f] = last.before.raw_data[f]

\* a real present edits the color of a label and leaves the description,
\* which the descriptor does not mention
C11_Witness ==
    /\ Ran /\ module = "label" /\ last.state = "present" /\ ~last.check_mode
    /\ last.params["description"] = None
    /\ last.before # NoneObj
    /\ last.before.raw_data["description"] \in Text
    /\ Len(Mutations(last.calls)) = 1
    /\ Mutations(last.calls)[1].op = "edit"
    /\ remote.raw_data["color"] # last.before.raw_data["color"]
    /\ remote.raw_data["description"] = last.before.raw_data["description"]

\* C12: create-only stripping.  No edit call of repository replace has the
\* key auto_init in its payload, whatever auto_init the descriptor gives;
\* the create payload has the key.
C12_EditStripsAutoInit ==
    (Ran /\ module = "repository" /\ last.state = "replace") =>
        \A i \in 1..Len(last.calls) :
            /\ last.calls[i].op = "edit" => "auto_init" \notin DOMAIN last.calls[i].args
            /\ last.calls[i].op = "create_repo" =>
                  /\ "auto_init" \in DOMAIN last.calls[i].args
                  /\ last.calls[i].args["auto_init"] = IterValue(last.params["auto_init"])

\* a real replace with auto_init = true edits a repository that exists
C12_Witness ==
    /\ Ran /\ module = "repository" /\ last.state = "replace" /\ ~last.check_mode
    /\ last.params["auto_init"] = True
    /\ last.before # NoneObj
    /\ \E i \in 1..Len(last.calls) : last.calls[i].op = "edit"


\* C13: validation before network.  When the construction of the
\* descriptor fails (a label color that is null or not six hex digits, a
\* file source that cannot be read), the run has made no remote call, the
\* connection and repository lookup of the manager's constructor included.
C13_ValidationBeforeNetwork ==
    (Ran /\ module \in {"label", "file"} /\ ~Valid) =>
        /\ last.calls = <<>>
        /\ last.out.kind # "ok"

\* C14: every run ends in a structured report: a success report carrying
\* changed, or a failure report; no exception leaves the runner uncaught.
C14_AlwaysStructuredReport ==
    Ran => last.out.kind \in {"ok", "failed"}


\* the failing call of the last run is the lookup in get() and the error
\* is the 404 that get() catches
FaultCaught ==
    /\ last.raised = "UnknownObjectException"
    /\ CaughtByGet(module, last.state, last.calls[last.fault])

\* C15: when a remote call of a run fails with an API error, the run
\* reports a failure and not changed = true, the failed call is the last
\* call of the run and has had no effect on the remote state; and no run
\* issues the same remote call twice.
C15_ApiErrorIsFailure ==
    Ran =>
        /\ \A i, j \in 1..Len(last.calls) : i # j => last.calls[i] # last.calls[j]
        /\ last.fault > 0 =>
              /\ last.out.kind = "failed"
              /\ ~last.out.changed
              /\ Len(last.calls) = last.fault
              /\ remote = last.before

\* C15 (amended): no run issues the same remote call twice.  When a
\* remote call fails with an API error the run reports a failure and not
\* changed = true, the failed call is its last call and has had no
\* effect (the remote is as the calls before it left it: as it was,
\* or, when the edit of a repository replace fails, holding the
\* repository just created), unless the call is the lookup in the
\* manager's get() and the error is a 404.  That error is read as a
\* missing resource: absent reports changed = false and issues no call;
\* present and replace go on to the create call (none under check_mode,
\* where the run ends in an AttributeError), which succeeds with
\* changed = true when there is no such resource and is refused, and
\* reported as a failure, when there is.  After the create, repository
\* replace may go on to its edit.
C15_ApiErrorFailsUnlessNotFound ==
    Ran =>
        /\ \A i, j \in 1..Len(last.calls) : i # j => last.calls[i] # last.calls[j]
        /\ (last.fault > 0 /\ ~FaultCaught) =>
              /\ last.out.kind = "failed"
              /\ ~last.out.changed
              /\ Len(last.calls) = last.fault
              /\ LET made == Mutations(SubSeq(last.calls, 1, last.fault - 1))
                 IN  IF made = <<>> THEN remote = last.before
                     ELSE /\ module = "repository" /\ last.state = "replace"
                          /\ last.calls[last.fault].op = "edit"
                          /\ made = <<Call("create_repo",
                                           asdict(RepositoryFields, last.params))>>
                          /\ remote = create_repo(made[1].args, last.private_only)
        /\ (last.fault > 0 /\ FaultCaught) =>
              IF last.state = "absent"
              THEN /\ last.out.kind = "ok" /\ ~last.out.changed
                   /\ Len(last.calls) = last.fault
                   /\ remote = last.before
              ELSE IF last.check_mode
              THEN /\ last.out.kind = "crash"
                   /\ last.out.error = "AttributeError"
                   /\ Len(last.calls) = last.fault
                   /\ remote = last.before
              ELSE /\ Len(last.calls) >= last.fault + 1
                   /\ last.calls[last.fault + 1].op \in CreateOps
                   /\ Len(last.calls) > last.fault + 1 =>
                         /\ Len(last.calls) = last.fault + 2
                         /\ module = "repository" /\ last.state = "replace"
                         /\ last.before = NoneObj
                         /\ last.calls[last.fault + 2].op = "edit"
                   /\ IF last.before = NoneObj
                      THEN last.out.kind = "ok" /\ last.out.changed
                      ELSE /\ last.out.kind = "failed" /\ ~last.out.changed
                           /\ Len(last.calls) = last.fault + 1
                           /\ remote = last.before

\* the create call of a real label present fails
C15_Witness ==
    /\ Ran /\ module = "label" /\ last.state = "present" /\ ~last.check_mode
    /\ last.fault > 0
    /\ last.calls[last.fault].op = "create_label"
    /\ last.out.kind = "failed"


\* positions of the lookups and of the mutating calls in a run's calls
LookupAt(calls) == {i \in 1..Len(calls) : calls[i].op \in LookupOps(module)}
MutationAt(calls) == {i \in 1..Len(calls) : IsMutation(calls[i])}

\* C16: one observe-then-act sequence.  Every run makes at most one
\* lookup of its target resource and at most one mutating call, and no
\* mutating call before the lookup.
C16_OneLookupOneMutation ==
    Ran =>
        /\ Cardinality(LookupAt(last.calls)) <= 1
        /\ Cardinality(MutationAt(last.calls)) <= 1
        /\ \A i \in LookupAt(last.calls), j \in MutationAt(last.calls) : i < j


\* C17: repository archived.  Against an existing repository that is not
\* archived the transition issues one edit setting archived = true
\* (unless dry-run) and reports changed = true; against one already
\* archived it issues no edit and reports changed = false.
C17_ArchiveConverges ==
    (Ran /\ module = "repository" /\ last.state = "archived"
         /\ last.before # NoneObj) =>
        IF last.before.raw_data["archived"] = True
        THEN /\ Mutations(last.calls) = <<>>
             /\ last.out.kind = "ok" /\ ~last.out.changed
        ELSE /\ Mutations(last.calls) =
                  IF last.check_mode THEN <<>>
                  ELSE <<Call("edit", [archived |-> True])>>
             /\ last.out.kind = "ok" /\ last.out.changed


\* C18: present never modifies what exists.  State present against an
\* existing repository or an existing file issues no create, edit/update
\* or delete call and leaves the resource as it was; for every descriptor
\* that could be built, also one whose set fields differ from the
\* resource, the run succeeds with changed = false.
C18_PresentKeepsExisting ==
    ( /\ Ran /\ module \in {"repository", "file"} /\ last.state = "present"
      /\ last.before # NoneObj ) =>
        /\ Mutations(last.calls) = <<>>
        /\ remote = last.before
        /\ ~last.out.changed
        /\ Valid => last.out.kind = "ok"

\* a real present of a file whose content differs from the descriptor
C18_Witness ==
    /\ Ran /\ module = "file" /\ last.state = "present" /\ ~last.check_mode
    /\ last.before # NoneObj /\ Valid
    /\ Differs(last.before)
    /\ last.out.kind = "ok" /\ ~last.out.changed


\* some set field of label descriptor cfg differs from label r
LabelDiffers(cfg, r) ==
    \E f \in {"name", "color", "description"} :
        IterValue(cfg[f]) # NotSet /\ r.raw_data[f] # cfg[f]

\* C19: label present converges.  Against an existing label, when some
\* set field of the descriptor differs one edit carrying the set fields is
\* issued (none under check_mode) and changed = true is reported; when all
\* set fields match no mutating call is issued and changed = false.  A
\* present repeated right after a successful present with
\* check_mode = false and the same descriptor reports changed = false.
C19_LabelPresentConverges ==
    [][ LET run == last'
        IN  (module = "label" /\ run.state = "present"
               /\ LabelConfig_post_init(run.params) = "") =>
              /\ run.before # NoneObj =>
                   /\ run.out.kind = "ok"
                   /\ run.out.changed = LabelDiffers(run.params, run.before)
                   /\ Mutations(run.calls) =
                        IF LabelDiffers(run.params, run.before) /\ ~run.check_mode
                        THEN <<Call("edit", asdict(LabelFields, run.params))>>
                        ELSE <<>>
              /\ ( /\ Ran /\ last.state = "present" /\ ~last.check_mode
                   /\ last.out.kind = "ok" /\ last.params = run.params ) =>
                   /\ run.out.kind = "ok" /\ ~run.out.changed
                   /\ Mutations(run.calls) = <<>> ]_vars

\* a real present that has edited a label whose color differed, leaving
\* the label as the descriptor says
C19_Witness ==
    /\ Ran /\ module = "label" /\ last.state = "present" /\ ~last.check_mode
    /\ last.before # NoneObj
    /\ last.before.raw_data["color"] # last.params["color"]
    /\ last.out.kind = "ok" /\ last.out.changed
    /\ Mutations(last.calls) # <<>>
    /\ remote.raw_data["color"] = last.params["color"]


\* C20: secret present never inspects remote state.  A present with
\* check_mode = false issues create_secret with the name and the value,
\* with no lookup before it, whatever the remote holds; and when the run
\* succeeds it reports changed = true, also when the secret already
\* exists with the same value.
C20_SecretPresentAlwaysChanges ==
    ( /\ Ran /\ module = "secrets" /\ last.state = "present"
      /\ ~last.check_mode ) =>
        /\ last.calls = ManagerCalls \o
              <<Call("create_secret",
                     [secret_name |-> last.params["name"],
                      unencrypted_value |-> last.params["value"]])>>
        /\ last.out.kind = "ok" => last.out.changed


\* C21: secrets under check_mode.  Every run of the secrets module with
\* check_mode = true, for state absent and for state present, raises the
\* ValueError "check_mode is not supported" before any remote call, the
\* connection and repository lookup of the manager included, and leaves
\* the remote as it was.
C21_SecretsDryRunUnsupported ==
    (Ran /\ module = "secrets" /\ last.check_mode) =>
        /\ last.calls = <<>>
        /\ last.out.kind = "crash"
        /\ last.out.error = "ValueError"
        /\ ~last.out.changed
        /\ remote = last.before

\* a dry run of secrets absent against a secret that exists
C21_Witness ==
    /\ Ran /\ module = "secrets" /\ last.state = "absent" /\ last.check_mode
    /\ last.before # NoneObj
    /\ last.out.error = "ValueError"


(* --------------------------- another actor ---------------------------- *)

\* A run taken one remote step at a time: its lookup, for collaborator
\* present its second lookup, then the rest.  Between the steps another
\* actor may create, change or delete the resource.  `last` then also
\* records the position of the run (phase), what the lookups returned
\* (seen), the calls made so far, the remote state the mutating call
\* met (mid), and whether the remote checks the sha of a file call
\* (sha_guard).  A repository replace that creates and then edits makes
\* its two mutating calls in two steps: made is the remote as the first
\* call left it, met the remote the second call found.

\* the modules whose managers find the resource before they act
RaceModules == {"repository", "label", "file", "collaborator"}

\* the report of a run that has not ended
Pending == [kind |-> "pending", changed |-> FALSE, error |-> ""]

\* the permission reported for a user who is not a collaborator
NoPermission == "none"

\* the run of the last invocation as its manager decides it from what
\* its lookups returned
Decided ==
    RunnerApply(module, last.state, last.params, last.check_mode, last.seen,
                FALSE, TRUE, last.private_only)

\* the runner is called, builds its manager, and the manager makes its
\* first lookup; a run that raises before any lookup ends here
Find ==
    /\ last = NoRun
    /\ module \in RaceModules
    /\ \E state \in States(module), check_mode \in BOOLEAN :
         \E params \in Params(module, state),
            private_only \in CreateRepoAnswers(module, state, check_mode, remote) :
           LET r == RunnerApply(module, state, params, check_mode, remote,
                                FALSE, TRUE, private_only)
               at == LookupAt(r.calls)
               first == CHOOSE i \in at : \A j \in at : i <= j
               run == [state |-> state, params |-> params,
                       check_mode |-> check_mode, before |-> remote,
                       seen |-> remote, mid |-> remote, fault |-> 0,
                       made |-> remote, met |-> remote,
                       sha_guard |-> FALSE, private_only |-> private_only]
           IN  last' =
                 IF at = {}
                 THEN [phase |-> "done", calls |-> r.calls,
                       out |-> TaskRunner_call(r)] @@ run
                 ELSE [phase |-> IF Cardinality(at) = 2 THEN "has" ELSE "found",
                       calls |-> SubSeq(r.calls, 1, first),
                       out |-> Pending] @@ run
    /\ UNCHANGED <<module, remote>>

\* CollaboratorManager.present after has_in_collaborators answered true:
\* get_collaborator_permission.  For a user who is a collaborator no
\* longer the call either raises or reports no permission.
FindPermission ==
    /\ Ran /\ last.phase = "has"
    /\ LET name == last.params["username"]
           asked == last.calls \o
                      <<Call("get_collaborator_permission", [username |-> name])>>
       IN  IF has_in_collaborators(remote, name)
           THEN last' = [last EXCEPT !.phase = "found", !.calls = asked,
                                     !.seen = remote]
           ELSE \/ last' = [last EXCEPT !.phase = "found", !.calls = asked,
                               !.seen = CollaboratorObj(name, NoPermission)]
                \/ \E err \in ApiErrors :
                     last' = [last EXCEPT !.phase = "done", !.calls = asked,
                                 !.mid = remote,
                                 !.out = TaskRunner_call(
                                            Ret(remote, asked, err, FALSE))]
    /\ UNCHANGED <<module, remote>>

\* another actor creates, changes or deletes the resource while the
\* run is between two of its remote calls
Interfere ==
    /\ Ran /\ last.phase \in {"has", "found", "created"}
    /\ \E other \in Remotes(module) \ {remote} : remote' = other
    /\ UNCHANGED <<module, last>>

\* the run ends as done
Ended(done, sha_guard) ==
    /\ remote' = done.remote
    /\ last' = [last EXCEPT !.phase = "done", !.calls = done.calls,
                            !.out = TaskRunner_call(done),
                            !.mid = remote, !.made = done.remote,
                            !.met = done.remote, !.sha_guard = sha_guard]

\* the run r that the manager decided on has had its first mutating call
\* answered with a: it ends, unless the call succeeded and r has a second
\* mutating call to make
Acted(r, a, sha_guard) ==
    IF Len(Mutations(r.calls)) = 2 /\ a.raised = ""
    THEN /\ remote' = a.remote
         /\ last' = [last EXCEPT !.phase = "created", !.calls = UpTo(r.calls, 1),
                                 !.mid = remote, !.made = a.remote,
                                 !.met = a.remote, !.sha_guard = sha_guard]
    ELSE Ended(Answered(r, a), sha_guard)

\* the manager goes on from what its lookups returned: its first mutating
\* call, if it decided on any, reaches the remote as it is now
Act ==
    /\ Ran /\ last.phase = "found"
    /\ \E sha_guard \in BOOLEAN :
         Acted(Decided,
               ApplyCalls(module,
                          SubSeq(Mutations(Decided.calls), 1,
                                 IF Mutations(Decided.calls) = <<>> THEN 0 ELSE 1),
                          remote, sha_guard, last.private_only),
               sha_guard)
    /\ UNCHANGED module

\* RepositoryManager.replace after create_repo has returned a repository
\* that does not compare equal to the descriptor: repo.edit, which
\* reaches the remote as it is now
ActEdit ==
    /\ Ran /\ last.phase = "created"
    /\ LET b == ApplyCall(module, Mutations(Decided.calls)[2], remote,
                          last.sha_guard, last.private_only)
           done == Ret(b.remote, Decided.calls, b.raised,
                       IF b.raised = "" THEN Decided.changed ELSE FALSE)
       IN  /\ remote' = b.remote
           /\ last' = [last EXCEPT !.phase = "done", !.calls = Decided.calls,
                                   !.out = TaskRunner_call(done), !.met = remote]
    /\ UNCHANGED module

NextRace == Find \/ FindPermission \/ Interfere \/ Act \/ ActEdit

SpecRace == Init /\ [][NextRace]_vars

\* the run has ended
Done == Ran /\ last.phase = "done"

\* the mutating call met a remote state other than the one the lookups
\* returned
Interfered == last.mid # last.seen

\* another actor changed the resource, which was there and still is
Changed == Interfered /\ last.seen # NoneObj /\ last.mid # NoneObj

\* when nobody interferes the split run ends as the whole run does
RaceAgreesWithRun ==
    ( /\ Done /\ last.seen = last.before /\ last.mid = last.before
      /\ last.met = last.made ) =>
        /\ remote = Decided.remote
        /\ last.calls = Decided.calls
        /\ last.out = TaskRunner_call(Decided)

\* the calls of a run that has not ended are the first calls of the run
\* it becomes
CallsSoFar ==
    (Ran /\ last.phase \in {"has", "found", "created"}) =>
        /\ last.out = Pending
        /\ Len(last.calls) <= Len(Decided.calls)
        /\ last.calls = SubSeq(Decided.calls, 1, Len(last.calls))

\* the first mutating call of the last run (the only one, but for a
\* repository replace that creates and then edits)
TheMutation == Mutations(last.calls)[1]

\* the remote after call c is what c asks for, whatever it held before
Overwritten(c) ==
    CASE c.op = "edit" ->
            \A f \in DOMAIN c.args :
                c.args[f] # NotSet => remote.raw_data[f] = c.args[f]
      [] c.op \in {"delete", "remove_from_collaborators"} -> remote = NoneObj
      [] c.op = "add_to_collaborators" ->
            remote = CollaboratorObj(c.args["username"], c.args["permission"])
      [] OTHER -> FALSE

\* C22: no version guard under interleaving.  When another actor changes
\* the resource between the find of a run and its mutating call, the
\* call is still issued and applied, with no version (sha) argument, for
\* label, repository, file and collaborator.
C22_NoVersionGuard ==
    (Done /\ Changed /\ Mutations(last.calls) # <<>>) =>
        /\ "sha" \notin DOMAIN TheMutation.args
        /\ last.out.kind = "ok"
        /\ remote = ApplyCall(module, TheMutation, last.mid, FALSE, FALSE).remote

\* C22 (amended): when another actor changes the resource, without
\* deleting it, between the find of a run and its mutating call, the
\* call decided on the stale observation is still issued.  For label, repository and collaborator
\* it carries no version argument and is applied over the other actor's
\* change, and the run reports changed = true.  A file update or delete
\* carries the sha of the file that was found.
C22_StaleWrite ==
    (Done /\ Changed /\ ~last.check_mode /\ Decided.changed) =>
        /\ Mutations(last.calls) # <<>>
        /\ IF module = "file"
           THEN /\ TheMutation.op \in {"update_file", "delete_file"}
                /\ "sha" \in DOMAIN TheMutation.args
                /\ TheMutation.args["sha"] = last.seen.sha
           ELSE /\ "sha" \notin DOMAIN TheMutation.args
                /\ last.out.kind = "ok" /\ last.out.changed
                /\ Overwritten(TheMutation)

\* a label present that found a label differing from the descriptor;
\* another actor then made the label equal to the descriptor, and the
\* edit was issued all the same
C22_Witness ==
    /\ Done /\ Changed /\ module = "label" /\ last.state = "present"
    /\ ~LabelDiffers(last.params, last.mid)
    /\ Mutations(last.calls) # <<>>
    /\ TheMutation.op = "edit"
    /\ last.out.changed

\* C23: file calls carry the observed sha.  Every update_file and
\* delete_file call passes the path and the sha of the file the find of
\* the same run returned; when the remote accepts such a call only with
\* the current sha, a file that another actor changed or deleted between
\* the find and the call is left as that actor made it.
C23_FileShaGuard ==
    ( /\ Done /\ module = "file" /\ Mutations(last.calls) # <<>>
      /\ TheMutation.op \in {"update_file", "delete_file"} ) =>
        /\ TheMutation.args["path"] = last.seen.path
        /\ TheMutation.args["sha"] = last.seen.sha
        /\ (last.sha_guard /\ Interfered) =>
              /\ remote = last.mid
              /\ last.out.kind = "failed"

\* a replace of a file that another actor rewrote after the find: the
\* update is refused and the other actor's content stays
C23_Witness ==
    /\ Done /\ module = "file" /\ last.state = "replace" /\ Interfered
    /\ last.sha_guard
    /\ Mutations(last.calls) # <<>>
    /\ TheMutation.op = "update_file"
    /\ remote = last.mid


\* C24: report matches action.  For every module and state, a run with
\* check_mode = false that ends successfully reports changed = true if
\* and only if it issued at least one mutating remote call.
C24_ChangedIffMutation ==
    (Ran /\ ~last.check_mode /\ last.out.kind = "ok") =>
        (last.out.changed <=> Mutations(last.calls) # <<>>)


(* ------------------------- the comparison alone ----------------------- *)

\* GithubObjectConfig.__eq__ and __ne__ applied to a label config and any
\* other operand: `remote` holds the operand, `last` the config and the
\* answer.

\* the label configs that can be built
CompareConfigs ==
    [name : LabelNames, color : HexColors, description : {None, Ellipsis} \cup Text]

\* mappings over some of the keys of a label
PartialData ==
    UNION { [keys -> {"bug"} \cup HexColors \cup {None} \cup Text] :
              keys \in SUBSET {"name", "color", "description"} }

\* the operands: a mapping, a remote label, another config, None, a string
Comparands ==
    { [class |-> "dict", data |-> d] : d \in PartialData }
    \cup (LabelRemotes \ {NoneObj})
    \cup { [class |-> "GithubObjectConfig", fields |-> LabelFields, cfg |-> c] :
             c \in CompareConfigs }
    \cup {NoneObj, [class |-> "str"]}

InitCompare ==
    /\ module = "label"
    /\ remote \in Comparands
    /\ last = NoRun

\* config == other
Eq ==
    /\ last = NoRun
    /\ \E cfg \in CompareConfigs :
         last' = [state |-> "__eq__", params |-> cfg, before |-> remote,
                  result |-> ConfigEq(LabelFields, cfg, remote)]
    /\ UNCHANGED <<module, remote>>

\* config != other
Ne ==
    /\ last = NoRun
    /\ \E cfg \in CompareConfigs :
         last' = [state |-> "__ne__", params |-> cfg, before |-> remote,
                  result |-> ConfigNe(LabelFields, cfg, remote)]
    /\ UNCHANGED <<module, remote>>

NextCompare == Eq \/ Ne

SpecCompare == InitCompare /\ [][NextCompare]_vars

\* the data a comparison reads from operand other, when it has any
HasData(other) ==
    other.class \in GithubObjectClasses \cup {"dict", "GithubObjectConfig"}
DataOf(other) ==
    CASE other.class = "dict" -> other.data
      [] other.class = "GithubObjectConfig" -> asdict(other.fields, other.cfg)
      [] OTHER -> other.raw_data

\* field f of cfg is set, its key is in the data, and the values differ
Clash(cfg, data, f) ==
    /\ cfg[f] \notin {None, Ellipsis}
    /\ f \in DOMAIN data
    /\ data[f] # cfg[f]

\* C25: the comparison.  `config == other` reports a mismatch only when
\* some set field's key is in the other side's data with a different
\* value: a set field whose key is missing never causes a mismatch, and
\* an operand that is neither a config, a remote object nor a mapping
\* (such as None) matches.  `config != other` is the negation.
C25_MismatchOnlyOnPresentKey ==
    Ran =>
        LET clash == /\ HasData(last.before)
                     /\ \E f \in {"name", "color", "description"} :
                            Clash(last.params, DataOf(last.before), f)
        IN  last.result = IF last.state = "__eq__" THEN ~clash ELSE clash

\* a config whose color is set, compared with a mapping that has no
\* color key and agrees on the keys it has: a match
C25_Witness ==
    /\ Ran /\ last.state = "__eq__"
    /\ last.before.class = "dict"
    /\ DOMAIN last.before.data = {"name"}
    /\ last.result


(* ------------------------ mixin.GithubObjectMixin --------------------- *)

\* GithubObjectMixin.edit applied to a remote object and a config
\* mapping: `remote` holds the object, `last` the call and its result.

MixinKeys == {"name", "description"}

\* mappings over some of the keys, None among the values
MixinData == UNION { [keys -> {None} \cup Text] : keys \in SUBSET MixinKeys }

MixinObj(d) == [class |-> "Repository", raw_data |-> d]

\* obj.raw_data.get(key, None)
RawGet(raw, key) == IF key \in DOMAIN raw THEN raw[key] ELSE None

\* obj.edit(config): the object takes the values of the config
mixin_obj_edit(obj, config) ==
    [obj EXCEPT !.raw_data =
        [k \in (DOMAIN obj.raw_data) \cup (DOMAIN config) |->
            IF k \in DOMAIN config THEN config[k] ELSE obj.raw_data[k]]]

\* GithubObjectMixin.edit that passes over keys the object does not have
GithubObjectMixin_edit_skips_missing(obj, config, check_mode) ==
    LET changed == \E key \in DOMAIN config :
                        key \in DOMAIN obj.raw_data /\ obj.raw_data[key] # config[key]
    IN  IF ~changed THEN Ret(obj, <<>>, "", FALSE)
        ELSE IF ~check_mode
        THEN Ret(mixin_obj_edit(obj, config), <<Call("edit", config)>>, "", TRUE)
        ELSE Ret(obj, <<>>, "", TRUE)

\* GithubObjectMixin.edit
GithubObjectMixin_edit(obj, config, check_mode) ==
    LET changed == \E key \in DOMAIN config : RawGet(obj.raw_data, key) # config[key]
    IN  IF ~changed THEN Ret(obj, <<>>, "", FALSE)
        ELSE IF ~check_mode
        THEN Ret(mixin_obj_edit(obj, config), <<Call("edit", config)>>, "", TRUE)
        ELSE Ret(obj, <<>>, "", TRUE)

InitMixin ==
    /\ module = "repository"
    /\ remote \in { MixinObj(d) : d \in MixinData }
    /\ last = NoRun

\* one call of edit; result["data"] is the data of the object as found
MixinEdit ==
    /\ last = NoRun
    /\ \E config \in MixinData, check_mode \in BOOLEAN :
         LET r == GithubObjectMixin_edit(remote, config, check_mode)
         IN  /\ remote' = r.remote
             /\ last' = [state |-> "edit", params |-> config,
                         check_mode |-> check_mode, before |-> remote,
                         calls |-> r.calls, changed |-> r.changed,
                         data |-> remote.raw_data]
    /\ UNCHANGED module

NextMixin == MixinEdit

SpecMixin == InitMixin /\ [][NextMixin]_vars

\* some key of config has a value other than the one the object has,
\* a key the object does not have counting as None
MixinDiffers(raw, config) ==
    ~ \A key \in DOMAIN config :
        \/ key \in DOMAIN raw /\ raw[key] = config[key]
        \/ key \notin DOMAIN raw /\ config[key] = None

\* C26: GithubObjectMixin.edit reports changed = true exactly when some
\* key of the config has a value different from the object's data, a
\* missing key counting as None; it issues the edit call only then and
\* only when check_mode is false; when nothing differs it returns
\* changed = false with the object's data and issues no call.
C26_MixinEdit ==
    Ran =>
        LET differs == MixinDiffers(last.before.raw_data, last.params)
        IN  /\ last.changed = differs
            /\ last.calls = IF differs /\ ~last.check_mode
                            THEN <<Call("edit", last.params)>> ELSE <<>>
            /\ ~differs => /\ last.data = last.before.raw_data
                           /\ remote = last.before

\* an edit with a value for a key the object does not have
C26_Witness ==
    /\ Ran /\ ~last.check_mode
    /\ \E key \in DOMAIN last.params :
         key \notin DOMAIN last.before.raw_data /\ last.params[key] # None
    /\ \A key \in DOMAIN last.params \cap DOMAIN last.before.raw_data :
         last.params[key] = last.before.raw_data[key]
    /\ last.changed
    /\ last.calls # <<>>


(* ------------------------- endpoint.GithubEndpoint -------------------- *)

\* The raw endpoint wrapper, which no module imports.  Its delete hands
\* the endpoint it was built with to requests.delete: no lookup, no
\* check_mode, no report.  The endpoint is used as it is, API_URL is
\* never put in front of it, so the path that LabelEndpoint builds has
\* no scheme and requests raises before anything is sent.

\* the path LabelEndpoint builds for the label the model's remote holds
LabelUrl == "/repos/owner/repository/labels/bug"

\* the same endpoint as an absolute URL
AbsoluteLabelUrl == "https://api.github.com/repos/owner/repository/labels/bug"

\* requests sends a request only to a URL with a scheme
HasScheme(endpoint) == endpoint = AbsoluteLabelUrl

\* LabelEndpoint(owner, repo, name): super().__init__ is called without
\* the token and raises
LabelEndpoint_init == "TypeError"

\* GithubEndpoint(endpoint, token).delete(): requests.delete(endpoint).
\* Without a scheme requests raises MissingSchema and nothing is sent.
\* Otherwise one DELETE is sent and the response is returned as it
\* comes, whatever its status: the remote removes the label (204) or
\* refuses (accepted false, or no such label).
GithubEndpoint_delete(rem, endpoint, accepted) ==
    LET sent == <<Call("DELETE", [url |-> endpoint])>>
    IN  IF ~HasScheme(endpoint)
        THEN [remote |-> rem, calls |-> <<>>, raised |-> "MissingSchema",
              status |-> 0]
        ELSE IF accepted /\ rem # NoneObj
        THEN [remote |-> NoneObj, calls |-> sent, raised |-> "", status |-> 204]
        ELSE [remote |-> rem, calls |-> sent, raised |-> "", status |-> 404]

\* a caller deletes through the endpoint wrapper
EndpointDelete ==
    /\ module = "label"
    /\ \E endpoint \in {LabelUrl, AbsoluteLabelUrl}, accepted \in BOOLEAN :
         LET r == GithubEndpoint_delete(remote, endpoint, accepted)
         IN  /\ remote' = r.remote
             /\ last' = [state |-> "delete", endpoint |-> endpoint,
                         calls |-> r.calls, before |-> remote,
                         raised |-> r.raised, status |-> r.status]
    /\ UNCHANGED module

\* a caller tries to build a LabelEndpoint
EndpointBuild ==
    /\ module = "label"
    /\ last' = [state |-> "init", calls |-> <<>>, before |-> remote,
                raised |-> LabelEndpoint_init]
    /\ UNCHANGED <<module, remote>>

NextEndpoint == EndpointDelete \/ EndpointBuild

SpecEndpoint == Init /\ [][NextEndpoint]_vars

\* delete with the path of LabelEndpoint sends nothing and leaves the
\* label; with an absolute URL it sends exactly one DELETE, and the label
\* is gone exactly when the remote answered 204
EndpointDeleteOutcome ==
    (Ran /\ last.state = "delete") =>
        IF last.endpoint = LabelUrl
        THEN /\ last.calls = <<>> /\ last.raised = "MissingSchema"
             /\ remote = last.before
        ELSE /\ Len(last.calls) = 1 /\ last.calls[1].op = "DELETE"
             /\ last.raised = ""
             /\ IF last.status = 204
                THEN last.before # NoneObj /\ remote = NoneObj
                ELSE remote = last.before

====
